---- MODULE Spec2Model ----
\* Model of package config (potatobeansco/go-config): ServiceConfig's typed
\* getters, ParseTo (struct population from the environment) and WriteTo
\* (key=value summary with secret masking).
\*
\* Go strings are modelled as sequences of one-character strings, so that
\* splitting, parsing and formatting are computed and not assumed.
\* Go's int is taken as 64 bits wide (int64(int) is then the identity); the
\* environment values drawn below are far shorter than the 19 characters at
\* which strconv.Atoi leaves its overflow-free fast path.
\* The target of ParseTo and WriteTo is taken to pass assertPointer: obj is
\* the struct behind a non-nil pointer.
EXTENDS Integers, Sequences, FiniteSets, TLC

\* sc    the ServiceConfig (Prefix, ArraySeparator)
\* env   the process environment: a function from the set variables to values
\* obj   the caller's struct, as a sequence of fields in declaration order
\* pre   the struct as it was when ParseTo was last called
\* ret   how the last ParseTo ended
\* wobj  the struct as it was when WriteTo was last called
\* out   the chunks the last WriteTo wrote to its sink, wret what it returned
\* res   the last getter call: getter, name, default, returned value and error
VARIABLES sc, env, obj, pre, ret, wobj, out, wret, res

vars == <<sc, env, obj, pre, ret, wobj, out, wret, res>>

\* ---------------------------------------------------------------- bounds
\* Largest number of fields of a target struct.
MaxFields == 2

\* ---------------------------------------------------------------- strings
DigitChars == <<"0", "1", "2", "3", "4", "5", "6", "7", "8", "9">>

IsDigit(c) == \E d \in 1..10 : DigitChars[d] = c

DigitVal(c) == (CHOOSE d \in 1..10 : DigitChars[d] = c) - 1

RECURSIVE Join(_, _)
\* Elements separated by sep (strings.Join; also how fmt prints a slice).
Join(ss, sep) ==
  IF ss = <<>> THEN <<>>
  ELSE IF Len(ss) = 1 THEN ss[1]
  ELSE ss[1] \o sep \o Join(Tail(ss), sep)

HasPrefixAt(s, i, sep) ==
  /\ i + Len(sep) - 1 <= Len(s)
  /\ \A j \in 1..Len(sep) : s[i + j - 1] = sep[j]

\* Index of the first occurrence of sep in s, 0 when there is none.
IndexOf(s, sep) ==
  IF \E i \in 1..Len(s) : HasPrefixAt(s, i, sep)
  THEN CHOOSE i \in 1..Len(s) :
         /\ HasPrefixAt(s, i, sep)
         /\ \A j \in 1..(i - 1) : ~HasPrefixAt(s, j, sep)
  ELSE 0

RECURSIVE Split(_, _)
\* strings.Split: an empty separator explodes s into its characters (and an
\* empty s into the empty slice); otherwise s is cut at every literal
\* occurrence of sep, and a string without sep is returned as one element.
Split(s, sep) ==
  IF sep = <<>> THEN [i \in 1..Len(s) |-> <<s[i]>>]
  ELSE LET k == IndexOf(s, sep) IN
       IF k = 0 THEN <<s>>
       ELSE <<SubSeq(s, 1, k - 1)>>
              \o Split(SubSeq(s, k + Len(sep), Len(s)), sep)

RECURSIVE DigitsToNat(_, _)
DigitsToNat(s, acc) ==
  IF s = <<>> THEN acc ELSE DigitsToNat(Tail(s), acc * 10 + DigitVal(Head(s)))

RECURSIVE NatToDigits(_)
NatToDigits(n) ==
  IF n < 10 THEN <<DigitChars[n + 1]>>
  ELSE NatToDigits(n \div 10) \o <<DigitChars[(n % 10) + 1]>>

\* strconv.Itoa / fmt's %d.
Itoa(n) == IF n < 0 THEN <<"-">> \o NatToDigits(-n) ELSE NatToDigits(n)

AllDigits(s) == \A i \in 1..Len(s) : IsDigit(s[i])

HasSign(s) == s # <<>> /\ s[1] \in {"+", "-"}

Unsigned(s) == IF HasSign(s) THEN Tail(s) ELSE s

\* ---------------------------------------------------------------- values
\* A Go value of any of the field types, in one record shape: kind names the
\* Go type, and only the components that type uses differ from their blanks.
\* A float is the decimal (-1)^b * n / 10^scale with no trailing fraction zero.
GoVal(kind, n, b, s, ss, ns, isNil, scale) ==
  [kind |-> kind, n |-> n, b |-> b, s |-> s, ss |-> ss, ns |-> ns,
   isNil |-> isNil, scale |-> scale]

IntV(n) == GoVal("int", n, FALSE, <<>>, <<>>, <<>>, FALSE, 0)
Int64V(n) == GoVal("int64", n, FALSE, <<>>, <<>>, <<>>, FALSE, 0)
StringV(s) == GoVal("string", 0, FALSE, s, <<>>, <<>>, FALSE, 0)
BoolV(b) == GoVal("bool", 0, b, <<>>, <<>>, <<>>, FALSE, 0)
Float32V(neg, mant, scale) ==
  GoVal("float32", mant, neg, <<>>, <<>>, <<>>, FALSE, scale)
Float64V(neg, mant, scale) ==
  GoVal("float64", mant, neg, <<>>, <<>>, <<>>, FALSE, scale)
StringsV(ss) == GoVal("[]string", 0, FALSE, <<>>, ss, <<>>, FALSE, 0)
IntsV(ns) == GoVal("[]int", 0, FALSE, <<>>, <<>>, ns, FALSE, 0)
NilStringsV == GoVal("[]string", 0, FALSE, <<>>, <<>>, <<>>, TRUE, 0)
NilIntsV == GoVal("[]int", 0, FALSE, <<>>, <<>>, <<>>, TRUE, 0)
\* A field type outside ParseTo's type switch.
UintV(n) == GoVal("uint", n, FALSE, <<>>, <<>>, <<>>, FALSE, 0)

SupportedKinds ==
  {"int", "int64", "string", "float32", "float64", "bool", "[]string", "[]int"}

\* The zero value of a Go type.
Zero(kind) ==
  CASE kind = "[]string" -> NilStringsV
    [] kind = "[]int" -> NilIntsV
    [] OTHER -> GoVal(kind, 0, FALSE, <<>>, <<>>, <<>>, FALSE, 0)

\* ---------------------------------------------------------------- errors
\* An error is the chain of its layers, outermost first; nil is the empty
\* chain. fmt.Errorf with %w puts one layer in front of the wrapped chain.
NilErr == <<>>

ErrConfigNotFound ==
  <<[what |-> "no configuration match with key", arg |-> <<>>]>>

\* *strconv.NumError: the failing function and the input it was given.
NumError(fn, s) == <<[what |-> fn, arg |-> s]>>

Wrapf(what, arg, err) == <<[what |-> what, arg |-> arg]>> \o err

\* errors.Is: target is somewhere down the Unwrap chain of err.
ErrorsIs(err, target) ==
  \E i \in 1..Len(err) : SubSeq(err, i, Len(err)) = target

\* ---------------------------------------------------------------- strconv
\* strconv.Atoi: optional sign, then one or more decimal digits.
Atoi(s) ==
  IF Unsigned(s) # <<>> /\ AllDigits(Unsigned(s))
  THEN [val |-> IF s[1] = "-" THEN -DigitsToNat(Unsigned(s), 0)
                ELSE DigitsToNat(Unsigned(s), 0),
        err |-> NilErr]
  ELSE [val |-> 0, err |-> NumError("strconv.Atoi", s)]

TrueSpellings ==
  {<<"1">>, <<"t">>, <<"T">>, <<"T", "R", "U", "E">>,
   <<"t", "r", "u", "e">>, <<"T", "r", "u", "e">>}

FalseSpellings ==
  {<<"0">>, <<"f">>, <<"F">>, <<"F", "A", "L", "S", "E">>,
   <<"f", "a", "l", "s", "e">>, <<"F", "a", "l", "s", "e">>}

\* strconv.ParseBool.
ParseBool(s) ==
  IF s \in TrueSpellings THEN [val |-> TRUE, err |-> NilErr]
  ELSE IF s \in FalseSpellings THEN [val |-> FALSE, err |-> NilErr]
  ELSE [val |-> FALSE, err |-> NumError("strconv.ParseBool", s)]

RECURSIVE Pow10(_)
Pow10(k) == IF k = 0 THEN 1 ELSE 10 * Pow10(k - 1)

RECURSIVE NormDec(_, _)
\* Drops the trailing zeros of the fraction: <<mantissa, scale>>.
NormDec(mant, scale) ==
  IF scale > 0 /\ mant % 10 = 0 THEN NormDec(mant \div 10, scale - 1)
  ELSE <<mant, scale>>

\* strconv.ParseFloat on plain decimal notation: optional sign, digits with at
\* most one point, at least one digit. (Exponent, hexadecimal, underscore, inf
\* and nan forms need characters no modelled environment value contains.)
\* The result is the decimal itself: a decimal of up to 6 significant digits
\* survives the round trip through float32 and float64.
ParseFloat(s) ==
  LET u == Unsigned(s)
      dot == IndexOf(u, <<".">>)
      ip == IF dot = 0 THEN u ELSE SubSeq(u, 1, dot - 1)
      fp == IF dot = 0 THEN <<>> ELSE SubSeq(u, dot + 1, Len(u))
      ok == AllDigits(ip) /\ AllDigits(fp) /\ Len(ip) + Len(fp) > 0
      nd == NormDec(DigitsToNat(ip \o fp, 0), Len(fp))
  IN IF ok
     THEN [neg |-> s[1] = "-", mant |-> nd[1], scale |-> nd[2],
           err |-> NilErr]
     ELSE [neg |-> FALSE, mant |-> 0, scale |-> 0,
           err |-> NumError("strconv.ParseFloat", s)]

RECURSIVE PadLeft(_, _)
PadLeft(s, n) == IF Len(s) >= n THEN s ELSE PadLeft(<<"0">> \o s, n)

\* fmt's %v of a float (shortest %g; the exponent form starts below 1e-4 and
\* at 1e21, out of reach of the modelled values).
FormatFloat(neg, mant, scale) ==
  (IF neg THEN <<"-">> ELSE <<>>)
    \o NatToDigits(mant \div Pow10(scale))
    \o (IF scale = 0 THEN <<>>
        ELSE <<".">> \o PadLeft(NatToDigits(mant % Pow10(scale)), scale))

\* ---------------------------------------------------------------- getters
getConfigName(name) == sc.Prefix \o <<"_">> \o name

\* Faulty variant of LookupEnv (sensitivity of C10): an empty value counts as
\* unset, as with os.Getenv(key) != "".
LookupEnvNonEmpty(key) ==
  IF key \in DOMAIN env /\ env[key] # <<>>
  THEN [data |-> env[key], exist |-> TRUE]
  ELSE [data |-> <<>>, exist |-> FALSE]

\* os.LookupEnv: the value and whether the variable is set ("" when not).
LookupEnv(key) ==
  IF key \in DOMAIN env THEN [data |-> env[key], exist |-> TRUE]
  ELSE [data |-> <<>>, exist |-> FALSE]

GetString(name) ==
  LET l == LookupEnv(getConfigName(name)) IN
  IF ~l.exist THEN [val |-> StringV(<<>>), err |-> ErrConfigNotFound]
  ELSE [val |-> StringV(l.data), err |-> NilErr]

\* Faulty variant of GetStringArray (sensitivity of C2): the value is not
\* split.
GetStringArrayNoSplit(name) ==
  LET l == LookupEnv(getConfigName(name)) IN
  IF ~l.exist THEN [val |-> NilStringsV, err |-> ErrConfigNotFound]
  ELSE [val |-> StringsV(<<l.data>>), err |-> NilErr]

GetStringArray(name) ==
  LET l == LookupEnv(getConfigName(name))
      configDataArray == Split(l.data, sc.ArraySeparator)
  IN IF ~l.exist THEN [val |-> NilStringsV, err |-> ErrConfigNotFound]
     ELSE [val |-> StringsV(configDataArray), err |-> NilErr]

\* The conversion loop of GetIntArray: the first element Atoi rejects ends it.
FirstBad(ss) ==
  IF \E i \in 1..Len(ss) : Atoi(ss[i]).err # NilErr
  THEN CHOOSE i \in 1..Len(ss) :
         /\ Atoi(ss[i]).err # NilErr
         /\ \A j \in 1..(i - 1) : Atoi(ss[j]).err = NilErr
  ELSE 0

GetIntArray(name) ==
  LET l == LookupEnv(getConfigName(name))
      configDataArray == Split(l.data, sc.ArraySeparator)
      bad == FirstBad(configDataArray)
  IN IF ~l.exist THEN [val |-> NilIntsV, err |-> ErrConfigNotFound]
     ELSE IF bad # 0
     THEN [val |-> NilIntsV,
           err |-> Wrapf("config name %s cannot be parsed", name,
                         Atoi(configDataArray[bad]).err)]
     ELSE [val |-> IntsV([i \in 1..Len(configDataArray) |->
                            Atoi(configDataArray[i]).val]),
           err |-> NilErr]

GetInt(name) ==
  LET l == LookupEnv(getConfigName(name)) IN
  IF ~l.exist THEN [val |-> IntV(0), err |-> ErrConfigNotFound]
  ELSE [val |-> IntV(Atoi(l.data).val), err |-> Atoi(l.data).err]

GetBool(name) ==
  LET l == LookupEnv(getConfigName(name)) IN
  IF ~l.exist THEN [val |-> BoolV(FALSE), err |-> ErrConfigNotFound]
  ELSE [val |-> BoolV(ParseBool(l.data).val), err |-> ParseBool(l.data).err]

GetFloat32(name) ==
  LET l == LookupEnv(getConfigName(name))
      f == ParseFloat(l.data)
  IN IF ~l.exist THEN [val |-> Float32V(FALSE, 0, 0), err |-> ErrConfigNotFound]
     ELSE [val |-> Float32V(f.neg, f.mant, f.scale), err |-> f.err]

GetFloat64(name) ==
  LET l == LookupEnv(getConfigName(name))
      f == ParseFloat(l.data)
  IN IF ~l.exist THEN [val |-> Float64V(FALSE, 0, 0), err |-> ErrConfigNotFound]
     ELSE [val |-> Float64V(f.neg, f.mant, f.scale), err |-> f.err]

GetStringWithDefault(name, defaultValue) ==
  LET l == LookupEnv(getConfigName(name)) IN
  IF ~l.exist THEN [val |-> defaultValue, err |-> NilErr]
  ELSE [val |-> StringV(l.data), err |-> NilErr]

GetStringArrayWithDefault(name, defaultValue) ==
  LET l == LookupEnv(getConfigName(name))
      configDataArray == Split(l.data, sc.ArraySeparator)
  IN IF ~l.exist THEN [val |-> defaultValue, err |-> NilErr]
     ELSE [val |-> StringsV(configDataArray), err |-> NilErr]

\* Faulty variant of GetIntArrayWithDefault (sensitivity of C4): a missing
\* entry yields GetIntArray's nil slice instead of the default.
GetIntArrayWithDefaultNil(name, defaultValue) ==
  [val |-> GetIntArray(name).val, err |-> NilErr]

GetIntArrayWithDefault(name, defaultValue) ==
  LET r == GetIntArray(name) IN
  IF ErrorsIs(r.err, ErrConfigNotFound)
  THEN [val |-> defaultValue, err |-> NilErr]
  ELSE [val |-> r.val, err |-> NilErr]

GetIntWithDefault(name, defaultValue) ==
  LET l == LookupEnv(getConfigName(name)) IN
  IF ~l.exist THEN [val |-> defaultValue, err |-> NilErr]
  ELSE [val |-> IntV(Atoi(l.data).val), err |-> Atoi(l.data).err]

GetBoolWithDefault(name, defaultValue) ==
  LET l == LookupEnv(getConfigName(name)) IN
  IF ~l.exist THEN [val |-> defaultValue, err |-> NilErr]
  ELSE [val |-> BoolV(ParseBool(l.data).val), err |-> ParseBool(l.data).err]

GetFloat32WithDefault(name, defaultValue) ==
  LET l == LookupEnv(getConfigName(name))
      f == ParseFloat(l.data)
  IN IF ~l.exist THEN [val |-> defaultValue, err |-> NilErr]
     ELSE [val |-> Float32V(f.neg, f.mant, f.scale), err |-> f.err]

GetFloat64WithDefault(name, defaultValue) ==
  LET l == LookupEnv(getConfigName(name))
      f == ParseFloat(l.data)
  IN IF ~l.exist THEN [val |-> defaultValue, err |-> NilErr]
     ELSE [val |-> Float64V(f.neg, f.mant, f.scale), err |-> f.err]

\* ---------------------------------------------------------------- ParseTo
\* A struct field: whether it carries a `config` tag, the tag's whole text,
\* and the field's current value (whose kind is the field's declared type).
Field(hasTag, tag, val) == [hasTag |-> hasTag, tag |-> tag, val |-> val]

RetNone == [status |-> "none", err |-> NilErr, tag |-> <<>>]
RetNil == [status |-> "nil", err |-> NilErr, tag |-> <<>>]
RetError(err) == [status |-> "error", err |-> err, tag |-> <<>>]
\* panic(...): the message carries the tag (and the struct's type name).
RetPanic(tag) == [status |-> "panic", err |-> NilErr, tag |-> tag]

\* Faulty variant of reformatParseError (sensitivity of C3): the message
\* names the tag without the prefix.
reformatParseErrorNoPrefix(name, err) == Wrapf("cannot parse %s_%s", name, err)

reformatParseError(name, err) ==
  Wrapf("cannot parse %s_%s", sc.Prefix \o <<"_">> \o name, err)

\* The getter each case of ParseTo's type switch calls, and the value it
\* stores (the int64 case converts GetInt's int).
FieldGetter(kind, tag) ==
  CASE kind = "int" -> GetInt(tag)
    [] kind = "int64" ->
         [val |-> Int64V(GetInt(tag).val.n), err |-> GetInt(tag).err]
    [] kind = "string" -> GetString(tag)
    [] kind = "float32" -> GetFloat32(tag)
    [] kind = "float64" -> GetFloat64(tag)
    [] kind = "bool" -> GetBool(tag)
    [] kind = "[]string" -> GetStringArray(tag)
    [] kind = "[]int" -> GetIntArray(tag)

\* Faulty variant of FieldStep (sensitivity of C1): a missing entry stores
\* the getter's zero value instead of leaving the field alone.
FieldStepZeroOnMissing(f) ==
  IF f.val.kind \notin SupportedKinds
  THEN [act |-> "panic", val |-> f.val, err |-> NilErr]
  ELSE LET r == FieldGetter(f.val.kind, f.tag) IN
       IF r.err = NilErr \/ ErrorsIs(r.err, ErrConfigNotFound)
       THEN [act |-> "set", val |-> r.val, err |-> NilErr]
       ELSE [act |-> "return", val |-> f.val,
             err |-> reformatParseError(f.tag, r.err)]

\* What ParseTo's switch does with one tagged field: panic on a type it has
\* no case for; otherwise call the getter and store its value, `continue` on
\* ErrConfigNotFound, or return the reformatted error.
FieldStep(f) ==
  IF f.val.kind \notin SupportedKinds
  THEN [act |-> "panic", val |-> f.val, err |-> NilErr]
  ELSE LET r == FieldGetter(f.val.kind, f.tag) IN
       IF r.err = NilErr THEN [act |-> "set", val |-> r.val, err |-> NilErr]
       ELSE IF ErrorsIs(r.err, ErrConfigNotFound)
       THEN [act |-> "continue", val |-> f.val, err |-> NilErr]
       ELSE [act |-> "return", val |-> f.val,
             err |-> reformatParseError(f.tag, r.err)]

RECURSIVE ParseFromTypeFirst(_, _)
\* Faulty variant of ParseFrom (sensitivity of C9): the type switch runs
\* before the tag lookup, so an untagged field of an unsupported type panics.
ParseFromTypeFirst(o, i) ==
  IF i > Len(o) THEN [obj |-> o, ret |-> RetNil]
  ELSE IF o[i].val.kind \notin SupportedKinds
  THEN [obj |-> o, ret |-> RetPanic(o[i].tag)]
  ELSE IF ~o[i].hasTag THEN ParseFromTypeFirst(o, i + 1)
  ELSE LET st == FieldStep(o[i]) IN
       CASE st.act = "return" -> [obj |-> o, ret |-> RetError(st.err)]
         [] st.act = "continue" -> ParseFromTypeFirst(o, i + 1)
         [] st.act = "set" ->
              ParseFromTypeFirst([o EXCEPT ![i].val = st.val], i + 1)

RECURSIVE ParseFrom(_, _)
\* ParseTo's loop from field i on: the struct as left behind and the outcome.
ParseFrom(o, i) ==
  IF i > Len(o) THEN [obj |-> o, ret |-> RetNil]
  ELSE IF ~o[i].hasTag THEN ParseFrom(o, i + 1)
  ELSE LET st == FieldStep(o[i]) IN
       CASE st.act = "panic" -> [obj |-> o, ret |-> RetPanic(o[i].tag)]
         [] st.act = "return" -> [obj |-> o, ret |-> RetError(st.err)]
         [] st.act = "continue" -> ParseFrom(o, i + 1)
         [] st.act = "set" -> ParseFrom([o EXCEPT ![i].val = st.val], i + 1)

\* ---------------------------------------------------------------- WriteTo
\* Faulty variant of Sprintv (sensitivity of C7): slices are printed as
\* their elements joined by the array separator, without brackets.
SprintvJoined(v) ==
  CASE v.kind \in {"int", "int64", "uint"} -> Itoa(v.n)
    [] v.kind = "string" -> v.s
    [] v.kind = "bool" ->
         IF v.b THEN <<"t", "r", "u", "e">> ELSE <<"f", "a", "l", "s", "e">>
    [] v.kind \in {"float32", "float64"} -> FormatFloat(v.b, v.n, v.scale)
    [] v.kind = "[]string" -> Join(v.ss, sc.ArraySeparator)
    [] v.kind = "[]int" ->
         Join([i \in 1..Len(v.ns) |-> Itoa(v.ns[i])], sc.ArraySeparator)

\* fmt.Sprintf("%v", v).
Sprintv(v) ==
  CASE v.kind \in {"int", "int64", "uint"} -> Itoa(v.n)
    [] v.kind = "string" -> v.s
    [] v.kind = "bool" ->
         IF v.b THEN <<"t", "r", "u", "e">> ELSE <<"f", "a", "l", "s", "e">>
    [] v.kind \in {"float32", "float64"} -> FormatFloat(v.b, v.n, v.scale)
    [] v.kind = "[]string" -> <<"[">> \o Join(v.ss, <<" ">>) \o <<"]">>
    [] v.kind = "[]int" ->
         <<"[">> \o Join([i \in 1..Len(v.ns) |-> Itoa(v.ns[i])], <<" ">>)
           \o <<"]">>

SecureToken == <<"s", "e", "c", "u", "r", "e">>

Mask == <<"*", "*", "*", "*", "*", "*", "*", "*">>

\* Faulty variant of Entry (sensitivity of C6): a secure field is masked even
\* when its rendered value is empty.
EntryMaskAlways(f) ==
  LET value == Sprintv(f.val)
      parts == Split(f.tag, <<",">>)
      key == parts[1]
      isSecure == Len(parts) > 1 /\ parts[2] = SecureToken
  IN key \o <<"=">> \o (IF isSecure THEN Mask ELSE value) \o <<",", " ">>

\* One pass of WriteTo's loop body: what Fprintf formats for a tagged field.
Entry(f) ==
  LET value == Sprintv(f.val)
      parts == Split(f.tag, <<",">>)
      key == parts[1]
      isSecure == Len(parts) > 1 /\ parts[2] = SecureToken
  IN key \o <<"=">> \o (IF isSecure /\ value # <<>> THEN Mask ELSE value)
       \o <<",", " ">>

RECURSIVE WriteFrom(_, _, _, _)
\* WriteTo's loop from field i on, with the chunks written so far; the sink
\* accepts `room` more writes and fails the one after.
WriteFrom(o, i, written, room) ==
  IF i > Len(o) THEN [out |-> written, wret |-> "nil"]
  ELSE IF ~o[i].hasTag THEN WriteFrom(o, i + 1, written, room)
  ELSE IF room = 0 THEN [out |-> written, wret |-> "error"]
  ELSE WriteFrom(o, i + 1, Append(written, Entry(o[i])), room - 1)

\* ---------------------------------------------------------------- inputs
Prefixes == {<<"P">>}

Separators == {<<" ">>, <<>>}

TagA == <<"A">>
TagASecure == <<"A", ",">> \o SecureToken

Names == {TagA, TagASecure}

EnvKeys == {p \o <<"_">> \o n : p \in Prefixes, n \in Names}

EnvValues ==
  {<<>>, <<"1">>, <<"+", "5">>, <<"1", " ", "2">>, <<"t", "r", "u", "e">>}

Envs == UNION {[K -> EnvValues] : K \in SUBSET EnvKeys}

\* A non-zero value of each field type, for prefilled structs and defaults.
Default(kind) ==
  CASE kind = "int" -> IntV(9)
    [] kind = "int64" -> Int64V(9)
    [] kind = "string" -> StringV(<<"d">>)
    [] kind = "float32" -> Float32V(FALSE, 25, 1)
    [] kind = "float64" -> Float64V(FALSE, 25, 1)
    [] kind = "bool" -> BoolV(TRUE)
    [] kind = "[]string" -> StringsV(<<<<"d">>>>)
    [] kind = "[]int" -> IntsV(<<9>>)
    [] kind = "uint" -> UintV(9)

\* Field declarations: every type under the plain tag, a string under the
\* secure tag, and an untagged field of a type ParseTo does not support.
FieldDecls ==
  {[hasTag |-> TRUE, tag |-> TagA, kind |-> k] :
      k \in SupportedKinds \cup {"uint"}}
  \cup {[hasTag |-> TRUE, tag |-> TagASecure, kind |-> "string"],
        [hasTag |-> FALSE, tag |-> <<>>, kind |-> "uint"]}

\* The structs of up to MaxFields fields, zero-valued or prefilled.
Records ==
  UNION {{[i \in 1..n |->
             Field(d[i].hasTag, d[i].tag,
                   IF prefilled THEN Default(d[i].kind) ELSE Zero(d[i].kind))] :
            d \in [1..n -> FieldDecls], prefilled \in BOOLEAN} :
         n \in 0..MaxFields}

NoRes == [fn |-> "none", name |-> <<>>, def |-> Zero("int"),
          val |-> Zero("int"), err |-> NilErr]

\* ---------------------------------------------------------------- actions
InitCommon ==
  /\ sc \in [Prefix : Prefixes, ArraySeparator : Separators]
  /\ pre = <<>>
  /\ ret = RetNone
  /\ wobj = <<>>
  /\ out = <<>>
  /\ wret = "none"
  /\ res = NoRes

\* The keys ParseTo or WriteTo can relate to a struct: prefix_tag of a tagged
\* field, and prefix_KEY for the first comma-separated segment KEY of its tag.
StructKeys(r) ==
  UNION {{getConfigName(r[i].tag),
          getConfigName(Split(r[i].tag, <<",">>)[1])} :
           i \in {j \in 1..Len(r) : r[j].hasTag}}

\* Any struct, zero-valued or prefilled, and any environment over the keys
\* of that struct.
InitParse ==
  /\ InitCommon
  /\ env \in Envs
  /\ obj \in Records
  /\ DOMAIN env \subseteq StructKeys(obj)

\* Any zero-valued struct (&T{}), and any environment over its keys.
InitStruct ==
  /\ InitParse
  /\ \A i \in 1..Len(obj) : obj[i].val = Zero(obj[i].val.kind)

\* Structs whose fields are all plainly tagged strings, and environments that
\* leave P_A unset or set it to "" or "1".
StringRecords ==
  {r \in Records :
     \A i \in 1..Len(r) :
       r[i].hasTag /\ r[i].val.kind = "string" /\ r[i].tag = TagA}

SmallEnvs ==
  UNION {[K -> {<<>>, <<"1">>}] :
           K \in SUBSET {p \o <<"_">> \o TagA : p \in Prefixes}}

Init ==
  /\ InitCommon
  /\ env \in SmallEnvs
  /\ obj \in StringRecords

\* The getters take no struct: the caller holds the empty one.
InitGet ==
  /\ InitCommon
  /\ env \in Envs
  /\ obj = <<>>

ParseTo ==
  /\ pre' = obj
  /\ obj' = ParseFrom(obj, 1).obj
  /\ ret' = ParseFrom(obj, 1).ret
  /\ UNCHANGED <<sc, env, wobj, out, wret, res>>

WriteTo ==
  \E room \in {0, MaxFields} :
    /\ wobj' = obj
    /\ out' = WriteFrom(obj, 1, <<>>, room).out
    /\ wret' = WriteFrom(obj, 1, <<>>, room).wret
    /\ UNCHANGED <<sc, env, obj, pre, ret, res>>

\* The record of a getter call and what it returned.
Called(fn, name, def, r) ==
  [fn |-> fn, name |-> name, def |-> def, val |-> r.val, err |-> r.err]

Defaults(kind) == {Zero(kind), Default(kind)}

CallGetString ==
  \E name \in Names :
    /\ res' = Called("GetString", name, Zero("string"), GetString(name))
    /\ UNCHANGED <<sc, env, obj, pre, ret, wobj, out, wret>>

CallGetStringArray ==
  \E name \in Names :
    /\ res' = Called("GetStringArray", name, Zero("[]string"), GetStringArray(name))
    /\ UNCHANGED <<sc, env, obj, pre, ret, wobj, out, wret>>

CallGetIntArray ==
  \E name \in Names :
    /\ res' = Called("GetIntArray", name, Zero("[]int"), GetIntArray(name))
    /\ UNCHANGED <<sc, env, obj, pre, ret, wobj, out, wret>>

CallGetInt ==
  \E name \in Names :
    /\ res' = Called("GetInt", name, Zero("int"), GetInt(name))
    /\ UNCHANGED <<sc, env, obj, pre, ret, wobj, out, wret>>

CallGetBool ==
  \E name \in Names :
    /\ res' = Called("GetBool", name, Zero("bool"), GetBool(name))
    /\ UNCHANGED <<sc, env, obj, pre, ret, wobj, out, wret>>

CallGetFloat32 ==
  \E name \in Names :
    /\ res' = Called("GetFloat32", name, Zero("float32"), GetFloat32(name))
    /\ UNCHANGED <<sc, env, obj, pre, ret, wobj, out, wret>>

CallGetFloat64 ==
  \E name \in Names :
    /\ res' = Called("GetFloat64", name, Zero("float64"), GetFloat64(name))
    /\ UNCHANGED <<sc, env, obj, pre, ret, wobj, out, wret>>

CallGetStringWithDefault ==
  \E name \in Names, d \in Defaults("string") :
    /\ res' = Called("GetStringWithDefault", name, d, GetStringWithDefault(name, d))
    /\ UNCHANGED <<sc, env, obj, pre, ret, wobj, out, wret>>

CallGetStringArrayWithDefault ==
  \E name \in Names, d \in Defaults("[]string") :
    /\ res' = Called("GetStringArrayWithDefault", name, d,
             GetStringArrayWithDefault(name, d))
    /\ UNCHANGED <<sc, env, obj, pre, ret, wobj, out, wret>>

CallGetIntArrayWithDefault ==
  \E name \in Names, d \in Defaults("[]int") :
    /\ res' = Called("GetIntArrayWithDefault", name, d, GetIntArrayWithDefault(name, d))
    /\ UNCHANGED <<sc, env, obj, pre, ret, wobj, out, wret>>

CallGetIntWithDefault ==
  \E name \in Names, d \in Defaults("int") :
    /\ res' = Called("GetIntWithDefault", name, d, GetIntWithDefault(name, d))
    /\ UNCHANGED <<sc, env, obj, pre, ret, wobj, out, wret>>

CallGetBoolWithDefault ==
  \E name \in Names, d \in Defaults("bool") :
    /\ res' = Called("GetBoolWithDefault", name, d, GetBoolWithDefault(name, d))
    /\ UNCHANGED <<sc, env, obj, pre, ret, wobj, out, wret>>

CallGetFloat32WithDefault ==
  \E name \in Names, d \in Defaults("float32") :
    /\ res' = Called("GetFloat32WithDefault", name, d, GetFloat32WithDefault(name, d))
    /\ UNCHANGED <<sc, env, obj, pre, ret, wobj, out, wret>>

CallGetFloat64WithDefault ==
  \E name \in Names, d \in Defaults("float64") :
    /\ res' = Called("GetFloat64WithDefault", name, d, GetFloat64WithDefault(name, d))
    /\ UNCHANGED <<sc, env, obj, pre, ret, wobj, out, wret>>

NextGet ==
  \/ CallGetString
  \/ CallGetStringArray
  \/ CallGetIntArray
  \/ CallGetInt
  \/ CallGetBool
  \/ CallGetFloat32
  \/ CallGetFloat64
  \/ CallGetStringWithDefault
  \/ CallGetStringArrayWithDefault
  \/ CallGetIntArrayWithDefault
  \/ CallGetIntWithDefault
  \/ CallGetBoolWithDefault
  \/ CallGetFloat32WithDefault
  \/ CallGetFloat64WithDefault

NextStruct == ParseTo \/ WriteTo

Next == NextGet \/ NextStruct

\* Every operation, in any order, on the inputs of Init.
Spec == Init /\ [][Next]_vars

\* The getters alone, over every environment.
SpecGet == InitGet /\ [][NextGet]_vars

\* ParseTo alone, over every struct and every environment.
SpecParse == InitParse /\ [][ParseTo]_vars

\* ParseTo and WriteTo in any order, starting from a zero-valued struct.
SpecStruct == InitStruct /\ [][NextStruct]_vars

\* ---------------------------------------------------------------- claims
\* The key a claim calls prefix_name (or prefix_tag).
ClaimKey(name) == sc.Prefix \o <<"_">> \o name

IsAbsent(name) == ClaimKey(name) \notin DOMAIN env

IsPresent(name) == ClaimKey(name) \in DOMAIN env

PlainGetters ==
  {"GetString", "GetStringArray", "GetIntArray", "GetInt", "GetBool",
   "GetFloat32", "GetFloat64"}

DefaultGetters ==
  {"GetStringWithDefault", "GetStringArrayWithDefault",
   "GetIntArrayWithDefault", "GetIntWithDefault", "GetBoolWithDefault",
   "GetFloat32WithDefault", "GetFloat64WithDefault"}

\* The Go type a getter returns.
ResultKind(fn) ==
  CASE fn \in {"GetString", "GetStringWithDefault"} -> "string"
    [] fn \in {"GetStringArray", "GetStringArrayWithDefault"} -> "[]string"
    [] fn \in {"GetIntArray", "GetIntArrayWithDefault"} -> "[]int"
    [] fn \in {"GetInt", "GetIntWithDefault"} -> "int"
    [] fn \in {"GetBool", "GetBoolWithDefault"} -> "bool"
    [] fn \in {"GetFloat32", "GetFloat32WithDefault"} -> "float32"
    [] fn \in {"GetFloat64", "GetFloat64WithDefault"} -> "float64"

\* C4: for a name whose key prefix_name is not in the environment, a plain
\* getter returns the zero value of its type with ErrConfigNotFound, and a
\* WithDefault getter returns exactly the default it was given with a nil
\* error.
C4_AbsentZeroOrDefault ==
  /\ (res.fn \in PlainGetters /\ IsAbsent(res.name))
       => (res.val = Zero(ResultKind(res.fn)) /\ res.err = ErrConfigNotFound)
  /\ (res.fn \in DefaultGetters /\ IsAbsent(res.name))
       => (res.val = res.def /\ res.err = NilErr)

C4_Witness ==
  /\ res.fn = "GetIntArrayWithDefault"
  /\ IsAbsent(res.name)
  /\ res.def = Default("[]int")
  /\ res.val = Default("[]int")

\* A value that cannot be coerced to the type asked for.
NotCoercible(kind, s) ==
  CASE kind \in {"int", "int64"} -> Atoi(s).err # NilErr
    [] kind = "bool" -> ParseBool(s).err # NilErr
    [] kind \in {"float32", "float64"} -> ParseFloat(s).err # NilErr
    [] kind = "[]int" ->
         \E i \in 1..Len(Split(s, sc.ArraySeparator)) :
           Atoi(Split(s, sc.ArraySeparator)[i]).err # NilErr
    [] OTHER -> FALSE

\* C5: every parsing getter, WithDefault variants and GetIntArrayWithDefault
\* included, returns a non-nil error when the entry is present but its value
\* cannot be coerced to the requested type.
C5_ParseFailureSurfaced ==
  (/\ res.fn \in PlainGetters \cup DefaultGetters
   /\ IsPresent(res.name)
   /\ NotCoercible(ResultKind(res.fn), env[ClaimKey(res.name)]))
    => res.err # NilErr

\* ---- ParseTo
ParseToCalled == ret.status # "none"

ZeroValued(r) == \A i \in 1..Len(r) : r[i].val = Zero(r[i].val.kind)

\* The environment value under a field's key prefix_tag.
EnvOf(f) == env[ClaimKey(f.tag)]

\* The value a valid encoding s stands for, per field type.
Decoded(kind, s) ==
  CASE kind = "int" -> IntV(Atoi(s).val)
    [] kind = "int64" -> Int64V(Atoi(s).val)
    [] kind = "string" -> StringV(s)
    [] kind = "bool" -> BoolV(ParseBool(s).val)
    [] kind = "float32" ->
         Float32V(ParseFloat(s).neg, ParseFloat(s).mant, ParseFloat(s).scale)
    [] kind = "float64" ->
         Float64V(ParseFloat(s).neg, ParseFloat(s).mant, ParseFloat(s).scale)
    [] kind = "[]string" -> StringsV(Split(s, sc.ArraySeparator))
    [] kind = "[]int" ->
         IntsV([i \in 1..Len(Split(s, sc.ArraySeparator)) |->
                  Atoi(Split(s, sc.ArraySeparator)[i]).val])

\* A tagged field of a supported type whose entry is present and valid.
PresentValid(f) ==
  /\ f.hasTag
  /\ f.val.kind \in SupportedKinds
  /\ IsPresent(f.tag)
  /\ ~NotCoercible(f.val.kind, EnvOf(f))

\* A tagged field of a supported type whose entry is present but unparsable.
Unparsable(f) ==
  /\ f.hasTag
  /\ f.val.kind \in SupportedKinds
  /\ IsPresent(f.tag)
  /\ NotCoercible(f.val.kind, EnvOf(f))

Unsupported(f) == f.hasTag /\ f.val.kind \notin SupportedKinds

\* C1: after ParseTo returns nil, every tagged field whose key prefix_tag is
\* not in the environment and every untagged field holds its pre-call value;
\* and a missing entry never makes ParseTo return an error: a returned error
\* is never ErrConfigNotFound and some tagged field's entry is present.
C1_AbsentFieldUntouched ==
  /\ ret.status = "nil" =>
       /\ Len(obj) = Len(pre)
       /\ \A i \in 1..Len(pre) :
            (~pre[i].hasTag \/ IsAbsent(pre[i].tag)) => obj[i] = pre[i]
  /\ ret.status = "error" =>
       /\ ~ErrorsIs(ret.err, ErrConfigNotFound)
       /\ \E i \in 1..Len(pre) : pre[i].hasTag /\ IsPresent(pre[i].tag)

C1_Witness ==
  /\ ret.status = "nil"
  /\ \E i, j \in 1..Len(pre) :
       /\ pre[i].hasTag /\ IsAbsent(pre[i].tag)
       /\ pre[i].val = Default("string") /\ obj[i] = pre[i]
       /\ pre[j].hasTag /\ IsPresent(pre[j].tag) /\ obj[j] # pre[j]

\* C2: on a zero-valued struct whose tagged fields all have a present, valid
\* entry, ParseTo returns nil and every tagged field holds the decoded value
\* of its entry.
C2_ValidEntriesDecoded ==
  (/\ ParseToCalled
   /\ ZeroValued(pre)
   /\ \A i \in 1..Len(pre) : pre[i].hasTag => PresentValid(pre[i]))
    => /\ ret.status = "nil"
       /\ \A i \in 1..Len(pre) :
            pre[i].hasTag => obj[i].val = Decoded(pre[i].val.kind, EnvOf(pre[i]))

C2_Witness ==
  /\ ret.status = "nil"
  /\ ZeroValued(pre)
  /\ \A i \in 1..Len(pre) : pre[i].hasTag => PresentValid(pre[i])
  /\ \E i, j \in 1..Len(pre) :
       /\ obj[i].val = IntsV(<<1, 2>>)
       /\ obj[j].val = StringsV(<<<<"1">>, <<"2">>>>)

\* Field k is the first tagged field with a present, unparsable entry, and
\* the walk gets to it (no tagged field of an unsupported type comes before).
FirstUnparsable(k) ==
  /\ Unparsable(pre[k])
  /\ \A j \in 1..(k - 1) : ~Unparsable(pre[j]) /\ ~Unsupported(pre[j])

StrconvFuncs == {"strconv.Atoi", "strconv.ParseBool", "strconv.ParseFloat"}

\* C3: if field k is the first tagged field whose entry is present but
\* unparsable, ParseTo returns an error whose outer layer names the key
\* prefix_tag of field k and which wraps the strconv cause; the present
\* tagged fields before k hold their newly parsed values, and field k and
\* all fields after it hold their pre-call values.
C3_PartialFailureNoRollback ==
  \A k \in 1..Len(pre) :
    (ParseToCalled /\ FirstUnparsable(k)) =>
      /\ ret.status = "error"
      /\ Len(ret.err) >= 2
      /\ ret.err[1].arg = ClaimKey(pre[k].tag)
      /\ ret.err[Len(ret.err)].what \in StrconvFuncs
      /\ Len(obj) = Len(pre)
      /\ \A j \in 1..(k - 1) :
           (pre[j].hasTag /\ IsPresent(pre[j].tag))
             => obj[j].val = Decoded(pre[j].val.kind, EnvOf(pre[j]))
      /\ \A j \in k..Len(pre) : obj[j] = pre[j]

C3_Witness ==
  /\ ret.status = "error"
  /\ FirstUnparsable(1)
  /\ Len(pre) >= 2
  /\ PresentValid(pre[2])
  /\ pre[2].tag # pre[1].tag
  /\ pre[2].val # Decoded(pre[2].val.kind, EnvOf(pre[2]))
  /\ obj[2] = pre[2]

\* Field u is the first tagged field of an unsupported type.
FirstUnsupported(u) ==
  /\ Unsupported(pre[u])
  /\ \A j \in 1..(u - 1) : ~Unsupported(pre[j])

NoUnparsableBefore(u) == \A j \in 1..(u - 1) : ~Unparsable(pre[j])

\* C9: ParseTo panics exactly when its walk gets to a tagged field of an
\* unsupported type, whether or not that field's entry exists; the present,
\* valid tagged fields before it are populated by then; an earlier unparsable
\* entry makes ParseTo return the parse error instead; an untagged field of
\* an unsupported type never makes it panic.
C9_UnsupportedTypePanics ==
  ParseToCalled =>
    /\ ret.status = "panic" <=>
         \E u \in 1..Len(pre) : FirstUnsupported(u) /\ NoUnparsableBefore(u)
    /\ \A u \in 1..Len(pre) :
         FirstUnsupported(u) =>
           IF NoUnparsableBefore(u)
           THEN /\ ret.tag = pre[u].tag
                /\ \A j \in 1..(u - 1) :
                     PresentValid(pre[j])
                       => obj[j].val = Decoded(pre[j].val.kind, EnvOf(pre[j]))
           ELSE ret.status = "error"

C9_Witness ==
  /\ ret.status = "panic"
  /\ Len(pre) >= 2
  /\ PresentValid(pre[1])
  /\ obj[1] # pre[1]
  /\ FirstUnsupported(2)
  /\ IsAbsent(pre[2].tag)

\* ---- WriteTo
\* The position of field i among the tagged fields of r: the number of the
\* chunk WriteTo writes for it.
Rank(r, i) == Cardinality({j \in 1..i : r[j].hasTag})

\* The comma-separated segments of a tag: KEY is the first, and the tag is
\* secure when the second is the word secure.
DisplayKey(tag) ==
  IF IndexOf(tag, <<",">>) = 0 THEN tag
  ELSE SubSeq(tag, 1, IndexOf(tag, <<",">>) - 1)

SecondSegment(tag) ==
  LET c == IndexOf(tag, <<",">>)
      rest == SubSeq(tag, c + 1, Len(tag))
  IN IF c = 0 THEN <<>>
     ELSE IF IndexOf(rest, <<",">>) = 0 THEN rest
     ELSE SubSeq(rest, 1, IndexOf(rest, <<",">>) - 1)

HasSecure(tag) == IndexOf(tag, <<",">>) # 0 /\ SecondSegment(tag) = SecureToken

\* The chunk "key=value, ".
Chunk(key, value) == key \o <<"=">> \o value \o <<",", " ">>

\* C6: WriteTo writes a secure field (tag "KEY,secure") whose rendered value
\* is non-empty as KEY=******** and not with its real value, a secure field
\* whose rendered value is empty with an empty value, and a field whose tag
\* has no second segment equal to secure with its real rendered value.
C6_SecureMasking ==
  wret = "nil" =>
    \A i \in 1..Len(wobj) :
      wobj[i].hasTag =>
        LET key == DisplayKey(wobj[i].tag)
            real == Sprintv(wobj[i].val)
            written == out[Rank(wobj, i)]
        IN /\ Rank(wobj, i) <= Len(out)
           /\ (HasSecure(wobj[i].tag) /\ real # <<>>)
                => (written = Chunk(key, Mask) /\ written # Chunk(key, real))
           /\ (HasSecure(wobj[i].tag) /\ real = <<>>)
                => written = Chunk(key, <<>>)
           /\ ~HasSecure(wobj[i].tag) => written = Chunk(key, real)

C6_Witness ==
  /\ wret = "nil"
  /\ Len(wobj) >= 2
  /\ HasSecure(wobj[1].tag) /\ wobj[1].val = StringV(<<"1", " ", "2">>)
  /\ out[1] = Chunk(<<"A">>, Mask)
  /\ ~HasSecure(wobj[2].tag) /\ wobj[2].val = StringV(<<"1">>)
  /\ out[2] = Chunk(<<"A">>, <<"1">>)

\* A zero-valued struct was populated from an environment in which every
\* tagged field's entry is present and valid, and then rendered.
ParsedThenWritten ==
  /\ ret.status = "nil"
  /\ ZeroValued(pre)
  /\ \A i \in 1..Len(pre) : pre[i].hasTag => PresentValid(pre[i])
  /\ wret = "nil"
  /\ wobj = obj

IsArrayKind(kind) == kind \in {"[]string", "[]int"}

\* The elements of an array value, as strings.
Elements(v) ==
  IF v.kind = "[]string" THEN v.ss ELSE [i \in 1..Len(v.ns) |-> Itoa(v.ns[i])]

\* C7 as stated: after such a round trip WriteTo renders, for every non-secure
\* field, the string set in the environment (scalar field) or the elements
\* joined with the configured separator (array field).
C7_RoundTripAsStated ==
  ParsedThenWritten =>
    \A i \in 1..Len(obj) :
      (obj[i].hasTag /\ ~HasSecure(obj[i].tag)) =>
        out[Rank(obj, i)] =
          Chunk(DisplayKey(obj[i].tag),
                IF IsArrayKind(obj[i].val.kind)
                THEN Join(Elements(obj[i].val), sc.ArraySeparator)
                ELSE EnvOf(obj[i]))

\* The canonical spelling of the value that a valid encoding s stands for.
Canonical(kind, s) ==
  CASE kind \in {"int", "int64"} -> Itoa(Atoi(s).val)
    [] kind = "string" -> s
    [] kind = "bool" ->
         IF s \in TrueSpellings THEN <<"t", "r", "u", "e">>
         ELSE <<"f", "a", "l", "s", "e">>
    [] kind \in {"float32", "float64"} ->
         FormatFloat(ParseFloat(s).neg, ParseFloat(s).mant, ParseFloat(s).scale)

\* C7 as amended: after such a round trip WriteTo renders, for every
\* non-secure field, the environment string itself for a string field, the
\* canonical spelling of the parsed value for an int, bool or float field,
\* and for an array field the elements joined by one space inside square
\* brackets, whatever the configured separator.
C7_RoundTripCanonical ==
  ParsedThenWritten =>
    \A i \in 1..Len(obj) :
      (obj[i].hasTag /\ ~HasSecure(obj[i].tag)) =>
        out[Rank(obj, i)] =
          Chunk(DisplayKey(obj[i].tag),
                IF IsArrayKind(obj[i].val.kind)
                THEN <<"[">> \o Join(Elements(obj[i].val), <<" ">>)
                       \o <<"]">>
                ELSE Canonical(obj[i].val.kind, EnvOf(obj[i])))

C7_Witness ==
  /\ ParsedThenWritten
  /\ Len(obj) >= 2
  /\ obj[1].hasTag /\ obj[1].val = IntV(5) /\ EnvOf(obj[1]) = <<"+", "5">>
  /\ out[1] = Chunk(<<"A">>, <<"5">>)
  /\ obj[2].hasTag /\ obj[2].val = StringsV(<<<<"+">>, <<"5">>>>)
  /\ out[2] = Chunk(<<"A">>, <<"[", "+", " ", "5", "]">>)

\* C8: ParseTo reads a secure field (tag "KEY,secure") from the entry
\* prefix_KEY, KEY being the display key WriteTo uses: after ParseTo returns
\* nil, a secure string field whose entry prefix_KEY is present holds that
\* entry's value.
C8_SecureFieldReadFromDisplayKey ==
  ret.status = "nil" =>
    \A i \in 1..Len(pre) :
      (/\ pre[i].hasTag
       /\ HasSecure(pre[i].tag)
       /\ pre[i].val.kind = "string"
       /\ IsPresent(DisplayKey(pre[i].tag)))
        => obj[i].val = StringV(env[ClaimKey(DisplayKey(pre[i].tag))])

\* ---- empty values
\* The entry prefix_name is present and holds the empty string.
EmptyEntry(name) == IsPresent(name) /\ env[ClaimKey(name)] = <<>>

\* What C10 says of every operation but GetIntArray.
EmptyIsPresent ==
  /\ (res.fn # "none" /\ EmptyEntry(res.name)) =>
       /\ ~ErrorsIs(res.err, ErrConfigNotFound)
       /\ res.fn = "GetString" =>
            (res.val = StringV(<<>>) /\ res.err = NilErr)
       /\ (res.fn = "GetStringArray" /\ sc.ArraySeparator # <<>>) =>
            (res.val = StringsV(<<<<>>>>) /\ res.err = NilErr)
       /\ res.fn = "GetInt" => res.err # NilErr
       /\ (res.fn \in DefaultGetters /\ res.def = Default(ResultKind(res.fn)))
            => res.val # res.def
  /\ \A i \in 1..Len(pre) :
       (/\ ParseToCalled
        /\ pre[i].hasTag
        /\ pre[i].val = Default("string")
        /\ EmptyEntry(pre[i].tag)
        /\ \A j \in 1..(i - 1) : ~Unparsable(pre[j]) /\ ~Unsupported(pre[j]))
         => obj[i].val = StringV(<<>>)

\* C10 as stated: an entry present with the empty string as its value is
\* never treated as missing: GetString returns "" and nil, GetStringArray
\* (non-empty separator) returns [""], GetInt and GetIntArray return a parse
\* error and not ErrConfigNotFound, no WithDefault getter returns the default
\* it was given, and ParseTo overwrites a prefilled string field with "".
C10_EmptyValueAsStated ==
  /\ EmptyIsPresent
  /\ (res.fn = "GetIntArray" /\ EmptyEntry(res.name)) => res.err # NilErr

\* C10 as amended: the same, except that GetIntArray returns a parse error
\* only under a non-empty separator; under the empty separator it returns the
\* empty sequence and a nil error (still not ErrConfigNotFound).
C10_EmptyValuePresent ==
  /\ EmptyIsPresent
  /\ (res.fn = "GetIntArray" /\ EmptyEntry(res.name)) =>
       IF sc.ArraySeparator # <<>> THEN res.err # NilErr
       ELSE res.val = IntsV(<<>>) /\ res.err = NilErr

C10_Witness ==
  /\ res.fn = "GetIntArray"
  /\ EmptyEntry(res.name)
  /\ sc.ArraySeparator = <<>>
  /\ res.val = IntsV(<<>>)
  /\ ret.status = "nil"
  /\ \E i \in 1..Len(pre) :
       /\ pre[i].hasTag /\ EmptyEntry(pre[i].tag)
       /\ pre[i].val = Default("string")
       /\ obj[i].val = StringV(<<>>)

====
